---- MODULE Spec2Model ----
(***************************************************************************)
(* Model of pylifesnaps.loader.LifeSnapsLoader: the sleep-stage merger     *)
(* (_merge_sleep_data_and_sleep_short_data), load_sleep_summary,           *)
(* load_sleep_stage and load_metric over a fitbit collection.              *)
(*                                                                         *)
(* Instants are whole seconds counted from an arbitrary origin; a dateTime *)
(* string of a document is represented by the instant it denotes.          *)
(* pandas' missing value is the level NaN.                                 *)
(***************************************************************************)
EXTENDS Integers, Sequences, FiniteSets, TLC

VARIABLES fitbit_collection, call, result, queries

vars == <<fitbit_collection, call, result, queries>>

(***************************************************************************)
(* Bounds of the model.                                                    *)
(***************************************************************************)
MaxCoarse == 2
MaxShort == 1

(***************************************************************************)
(* Program constants.                                                      *)
(***************************************************************************)
GridSeconds == 30

STAGE_WAKE_VALUE == "wake"
STAGE_DEEP_VALUE == "deep"
STAGE_LIGHT_VALUE == "light"
STAGE_REM_VALUE == "rem"

Stages == {STAGE_DEEP_VALUE, STAGE_LIGHT_VALUE, STAGE_REM_VALUE, STAGE_WAKE_VALUE}

\* pandas' missing value in the level column
NaN == "NaN"

NoCall == [op |-> "none"]
NoResult == [status |-> "none"]

Raise(kind) == [status |-> "error", error |-> kind]
Return(rows) == [status |-> "ok", rows |-> rows]

(***************************************************************************)
(* Generic helpers on sequences.                                           *)
(***************************************************************************)
RECURSIVE Flatten(_)
Flatten(ss) == IF ss = <<>> THEN <<>> ELSE Head(ss) \o Flatten(Tail(ss))

RECURSIVE SumSeconds(_)
SumSeconds(rows) ==
    IF rows = <<>> THEN 0 ELSE Head(rows).seconds + SumSeconds(Tail(rows))

Last(s) == s[Len(s)]

(***************************************************************************)
(* _merge_sleep_data_and_sleep_short_data                                  *)
(***************************************************************************)

\* ShortWindows keeping the level label of the shortData entry
ShortWindows_keep_level(e) ==
    IF e.seconds > GridSeconds
    THEN [i \in 1..(e.seconds \div GridSeconds) |->
            [dateTime |-> e.dateTime + (i - 1) * GridSeconds,
             level |-> e.level,
             seconds |-> GridSeconds]]
    ELSE <<[dateTime |-> e.dateTime, level |-> e.level, seconds |-> e.seconds]>>

\* ShortWindows with one more window for the seconds left over
ShortWindows_round_up(e) ==
    IF e.seconds > GridSeconds
    THEN [i \in 1..((e.seconds + GridSeconds - 1) \div GridSeconds) |->
            [dateTime |-> e.dateTime + (i - 1) * GridSeconds,
             level |-> STAGE_WAKE_VALUE,
             seconds |-> GridSeconds]]
    ELSE <<[dateTime |-> e.dateTime,
            level |-> STAGE_WAKE_VALUE,
            seconds |-> e.seconds]>>

\* step 2: one shortData entry as 30-second wake windows
ShortWindows(e) ==
    IF e.seconds > GridSeconds
    THEN [i \in 1..(e.seconds \div GridSeconds) |->
            [dateTime |-> e.dateTime + (i - 1) * GridSeconds,
             level |-> STAGE_WAKE_VALUE,
             seconds |-> GridSeconds]]
    ELSE <<[dateTime |-> e.dateTime,
            level |-> STAGE_WAKE_VALUE,
            seconds |-> e.seconds]>>

sleep_short_data_list_copy(short) ==
    Flatten([i \in 1..Len(short) |-> ShortWindows(short[i])])

\* new_sleep_data_df_index with a last label for a partial trailing window
new_sleep_data_df_index_padded(min_sleep_dt, max_sleep_dt) ==
    LET n == IF max_sleep_dt - min_sleep_dt < 0 THEN 0
             ELSE (max_sleep_dt - min_sleep_dt + GridSeconds - 1) \div GridSeconds
    IN  [i \in 1..n |-> min_sleep_dt + (i - 1) * GridSeconds]

\* step 4: the index of the new frame, one label every 30 seconds
\* int() truncates towards zero and range() of a negative number is empty
new_sleep_data_df_index(min_sleep_dt, max_sleep_dt) ==
    LET n == IF max_sleep_dt - min_sleep_dt < 0 THEN 0
             ELSE (max_sleep_dt - min_sleep_dt) \div GridSeconds
    IN  [i \in 1..n |-> min_sleep_dt + (i - 1) * GridSeconds]

\* step 4: the level column right after the label-aligned assignment from
\* the coarse frame: a label that is no coarse dateTime gets NaN
AlignedLevel(index, data) ==
    [i \in 1..Len(index) |->
        IF \E k \in 1..Len(data) : data[k].dateTime = index[i]
        THEN data[CHOOSE k \in 1..Len(data) : data[k].dateTime = index[i]].level
        ELSE NaN]

\* ffill that fills nothing
ffill_none(col, i) == [k \in 1..i |-> col[k]]

\* step 4: DataFrame.ffill
RECURSIVE ffill(_, _)
ffill(col, i) ==
    IF i = 0 THEN <<>>
    ELSE LET before == ffill(col, i - 1)
         IN  Append(before,
                    IF col[i] # NaN \/ i = 1 THEN col[i] ELSE before[i - 1])

\* step 5: the short windows written over the level column
\* InjectShort the forward fill of which runs after the overlay: the bucket
\* after an overridden one takes the override
InjectShort_propagates(index, col, short_copy) ==
    [i \in 1..Len(index) |->
        IF \E k \in 1..Len(short_copy) : short_copy[k].dateTime = index[i]
        THEN short_copy[CHOOSE k \in 1..Len(short_copy) :
                            short_copy[k].dateTime = index[i]].level
        ELSE IF i > 1 /\ \E k \in 1..Len(short_copy) :
                            short_copy[k].dateTime = index[i - 1]
        THEN short_copy[CHOOSE k \in 1..Len(short_copy) :
                            short_copy[k].dateTime = index[i - 1]].level
        ELSE col[i]]

InjectShort(index, col, short_copy) ==
    [i \in 1..Len(index) |->
        IF \E k \in 1..Len(short_copy) : short_copy[k].dateTime = index[i]
        THEN short_copy[CHOOSE k \in 1..Len(short_copy) :
                            short_copy[k].dateTime = index[i]].level
        ELSE col[i]]

\* Coalesce that emits one row per label, runs not grouped
Coalesce_per_label(index, col, i) ==
    [k \in 1..i |-> [dateTime |-> index[k], level |-> col[k], seconds |-> GridSeconds]]

\* Coalesce that leaves the nominal 30 seconds on the row of each run
RECURSIVE Coalesce_nominal_seconds(_, _, _)
Coalesce_nominal_seconds(index, col, i) ==
    IF i = 0 THEN <<>>
    ELSE LET before == Coalesce_nominal_seconds(index, col, i - 1)
         IN  IF i > 1 /\ col[i] = col[i - 1]
             THEN before
             ELSE Append(before, [dateTime |-> index[i],
                                  level |-> col[i],
                                  seconds |-> GridSeconds])

\* steps 6-9: one row per run of equal levels, its seconds from the labels
RECURSIVE Coalesce(_, _, _)
Coalesce(index, col, i) ==
    IF i = 0 THEN <<>>
    ELSE LET before == Coalesce(index, col, i - 1)
         IN  IF i > 1 /\ col[i] = col[i - 1]
             THEN [before EXCEPT ![Len(before)].seconds =
                        index[i] + GridSeconds - before[Len(before)].dateTime]
             ELSE Append(before, [dateTime |-> index[i],
                                  level |-> col[i],
                                  seconds |-> GridSeconds])

\* pd.DataFrame(sleep_data_dict) without its last row
sleep_data_df_short(sleep_data_dict) ==
    SubSeq(sleep_data_dict, 1, Len(sleep_data_dict) - 1)

\* pd.DataFrame(sleep_data_dict) with its first two rows made one when they
\* hold the same level
sleep_data_df_coalesced(sleep_data_dict) ==
    IF Len(sleep_data_dict) >= 2 /\ sleep_data_dict[1].level = sleep_data_dict[2].level
    THEN <<[sleep_data_dict[1] EXCEPT
               !.seconds = sleep_data_dict[1].seconds + sleep_data_dict[2].seconds]>>
         \o SubSeq(sleep_data_dict, 3, Len(sleep_data_dict))
    ELSE sleep_data_dict

\* pd.DataFrame(sleep_data_dict): one row per coarse event, in list order
sleep_data_df(sleep_data_dict) == sleep_data_dict

_merge_sleep_data_and_sleep_short_data(sleep_entry) ==
    LET data == sleep_entry.data
    IN
    IF "levels" \notin DOMAIN data THEN Raise("KeyError")
    ELSE IF "data" \notin DOMAIN data.levels THEN Raise("KeyError")
    ELSE IF "shortData" \notin DOMAIN data.levels THEN Return(sleep_data_df(data.levels.data))
    ELSE IF data.levels.data = <<>> THEN Raise("KeyError")
    ELSE
    LET sleep_data == data.levels.data
        sleep_start_dt == sleep_data[1].dateTime
        sleep_end_dt == Last(sleep_data).dateTime + Last(sleep_data).seconds
        short_copy == sleep_short_data_list_copy(data.levels.shortData)
    IN
    IF short_copy = <<>> THEN Raise("KeyError")
    ELSE
    LET sleep_short_data_start_dt == short_copy[1].dateTime
        sleep_short_data_end_dt == Last(short_copy).dateTime + Last(short_copy).seconds
        min_sleep_dt == IF sleep_start_dt < sleep_short_data_start_dt
                        THEN sleep_start_dt ELSE sleep_short_data_start_dt
        max_sleep_dt == IF sleep_end_dt > sleep_short_data_end_dt
                        THEN sleep_end_dt ELSE sleep_short_data_end_dt
        index == new_sleep_data_df_index(min_sleep_dt, max_sleep_dt)
        filled == ffill(AlignedLevel(index, sleep_data), Len(index))
    IN
    IF \E k \in 1..Len(short_copy) :
          \A i \in 1..Len(index) : index[i] # short_copy[k].dateTime
    THEN Raise("KeyError")
    ELSE Return(Coalesce(index, InjectShort(index, filled, short_copy), Len(index)))

(***************************************************************************)
(* pylifesnaps.utils                                                       *)
(***************************************************************************)
DaySeconds == 86400

None == [kind |-> "None"]
DateTime(t) == [kind |-> "datetime", t |-> t]

\* a datetime.date becomes its midnight, a string the instant it denotes
convert_to_datetime(date) ==
    IF date.kind = "date" THEN DateTime(date.day * DaySeconds)
    ELSE IF date.kind = "str" THEN DateTime(date.t)
    ELSE IF date.kind = "datetime" THEN date
    ELSE IF date.kind = "None" THEN None
    ELSE [kind |-> "ValueError"]

\* "True", or the exception raised: None < datetime is a TypeError
compare_dates(start_date, end_date) ==
    IF ~(start_date = None /\ end_date = None)
    THEN IF start_date = None \/ end_date = None THEN "TypeError"
         ELSE IF end_date.t < start_date.t THEN "ValueError"
         ELSE "True"
    ELSE "True"

(***************************************************************************)
(* The store: the fitbit collection and the queries issued to it.          *)
(***************************************************************************)
NoKey == "None"

\* get_user_ids that knows every id
get_user_ids_any == {"u1", "u2", "u9"}

\* LifeSnapsLoader.get_user_ids: collection.distinct("id")
get_user_ids == {fitbit_collection[i].id : i \in 1..Len(fitbit_collection)}

Cond(key, op, date) == [key |-> key, op |-> op, t |-> date.t]

\* _get_start_and_end_date_time_filter_dict without the check of the order
\* of the two dates
_get_start_and_end_date_time_filter_dict_unchecked(start_date_key, end_date_key, start_date, end_date) ==
    LET end_key == IF end_date_key = NoKey THEN start_date_key ELSE end_date_key
    IN  IF start_date # None /\ end_date # None
        THEN [error |-> "",
              match |-> {Cond(start_date_key, "$gte", start_date),
                         Cond(end_key, "$lte", end_date)}]
        ELSE IF start_date = None /\ end_date # None
        THEN [error |-> "", match |-> {Cond(end_key, "$lte", end_date)}]
        ELSE IF start_date # None /\ end_date = None
        THEN [error |-> "", match |-> {Cond(start_date_key, "$gte", start_date)}]
        ELSE [error |-> "", match |-> {}]

_get_start_and_end_date_time_filter_dict(start_date_key, end_date_key, start_date, end_date) ==
    LET end_key == IF end_date_key = NoKey THEN start_date_key ELSE end_date_key
    IN  IF start_date # None /\ end_date # None
        THEN IF end_date.t < start_date.t
             THEN [error |-> "ValueError", match |-> {}]
             ELSE [error |-> "",
                   match |-> {Cond(start_date_key, "$gte", start_date),
                              Cond(end_key, "$lte", end_date)}]
        ELSE IF start_date = None /\ end_date # None
        THEN [error |-> "", match |-> {Cond(end_key, "$lte", end_date)}]
        ELSE IF start_date # None /\ end_date = None
        THEN [error |-> "", match |-> {Cond(start_date_key, "$gte", start_date)}]
        ELSE [error |-> "", match |-> {}]

\* Matches with both comparisons strict
Matches_exclusive(doc, match) ==
    \A c \in match :
        /\ c.key \in DOMAIN doc.data
        /\ IF c.op = "$gte" THEN doc.data[c.key] > c.t ELSE doc.data[c.key] < c.t

\* a $match stage on fields of data: a document without the field is left out
Matches(doc, match) ==
    \A c \in match :
        /\ c.key \in DOMAIN doc.data
        /\ IF c.op = "$gte" THEN doc.data[c.key] >= c.t ELSE doc.data[c.key] <= c.t

RECURSIVE SelectSeq2(_, _, _, _)
SelectSeq2(docs, type, user_id, match) ==
    IF docs = <<>> THEN <<>>
    ELSE LET rest == SelectSeq2(Tail(docs), type, user_id, match)
             d == Head(docs)
         IN  IF d.type = type /\ d.id = user_id /\ Matches(d, match)
             THEN <<d>> \o rest ELSE rest

\* fitbit_collection.aggregate([$match type and id, $addFields, date filter]):
\* the matching documents in the order of the collection
\* aggregate without the date filter stage
aggregate_no_date_filter(type, user_id, match) ==
    SelectSeq2(fitbit_collection, type, user_id, {})

aggregate(type, user_id, match) == SelectSeq2(fitbit_collection, type, user_id, match)

(***************************************************************************)
(* DataFrame helpers.  A table is a set of columns and a sequence of rows; *)
(* a row is a record of the cells it holds, and a column of the table that *)
(* is not a field of a row is a missing value (NaN) in that row.           *)
(***************************************************************************)
ReturnTable(rows) ==
    [status |-> "ok",
     columns |-> UNION {DOMAIN rows[i] : i \in 1..Len(rows)},
     rows |-> rows]

\* DataFrame.sort_values(by=...): the default sort is not stable, so rows of
\* equal key come out in any order.  The orders are sequences of row numbers.
RECURSIVE SortedOrders(_, _)
SortedOrders(keys, remaining) ==
    IF remaining = {} THEN {<<>>}
    ELSE LET firsts == {i \in remaining : \A j \in remaining : keys[i] <= keys[j]}
         IN  UNION {{<<i>> \o o : o \in SortedOrders(keys, remaining \ {i})} :
                        i \in firsts}

\* sort_values that leaves the rows in the order of the frame
sort_values_unsorted(rows, by) == {rows}

sort_values(rows, by) ==
    {[k \in 1..Len(rows) |-> rows[o[k]]] :
        o \in SortedOrders([i \in 1..Len(rows) |-> rows[i][by]], 1..Len(rows))}

\* rename of one column: the cell moves to the new name
Rename(row, old, new) ==
    IF old \in DOMAIN row
    THEN [c \in (DOMAIN row \ {old}) \cup {new} |-> IF c = new THEN row[old] ELSE row[c]]
    ELSE row

\* the row without some of its cells
Drop(row, cols) == [c \in DOMAIN row \ cols |-> row[c]]

(***************************************************************************)
(* load_sleep_summary                                                      *)
(***************************************************************************)
SLEEP_DEEP_DURATION_IN_MS_COL == "deepSleepDurationInMs"
SLEEP_LIGHT_DURATION_IN_MS_COL == "lightSleepDurationInMs"
SLEEP_REM_DURATION_IN_MS_COL == "remSleepInMs"
SLEEP_AWAKE_DURATION_IN_MS_COL == "awakeDurationInMs"
UNIXTIMESTAMP_IN_MS_COL == "unixTimestampInMs"
ISODATE_COL == "isoDate"
TIMEZONEOFFSET_IN_MS_COL == "timezoneOffsetInMs"

\* the keys of stage_value_col_dict in insertion order, and its values
stage_value_col_keys ==
    <<STAGE_DEEP_VALUE, STAGE_LIGHT_VALUE, STAGE_REM_VALUE, STAGE_WAKE_VALUE>>

stage_value_col_dict ==
    [st \in Stages |->
        IF st = STAGE_DEEP_VALUE THEN SLEEP_DEEP_DURATION_IN_MS_COL
        ELSE IF st = STAGE_LIGHT_VALUE THEN SLEEP_LIGHT_DURATION_IN_MS_COL
        ELSE IF st = STAGE_REM_VALUE THEN SLEEP_REM_DURATION_IN_MS_COL
        ELSE SLEEP_AWAKE_DURATION_IN_MS_COL]

\* groupby(level)[seconds].sum(): the levels present (NaN is no group) ...
sleep_stages_duration_index(rows) ==
    {rows[i].level : i \in 1..Len(rows)} \ {NaN}

\* ... and the sum of the seconds of one level
RECURSIVE sleep_stages_duration(_, _)
sleep_stages_duration(rows, stage) ==
    IF rows = <<>> THEN 0
    ELSE (IF Head(rows).level = stage THEN Head(rows).seconds ELSE 0)
         + sleep_stages_duration(Tail(rows), stage)

\* SaveStageDurations that writes 0 to the column of the stage that is missing
RECURSIVE SaveStageDurations_own_column(_, _, _)
SaveStageDurations_own_column(temp_df, rows, k) ==
    IF k = 0 THEN temp_df
    ELSE LET before == SaveStageDurations_own_column(temp_df, rows, k - 1)
             sleep_stage == stage_value_col_keys[k]
         IN  IF sleep_stage \in sleep_stages_duration_index(rows)
             THEN (stage_value_col_dict[sleep_stage]
                      :> sleep_stages_duration(rows, sleep_stage) * 1000) @@ before
             ELSE (stage_value_col_dict[sleep_stage] :> 0) @@ before

\* lines 286-292: the loop over the stages, writing the cells of temp_df
RECURSIVE SaveStageDurations(_, _, _)
SaveStageDurations(temp_df, rows, k) ==
    IF k = 0 THEN temp_df
    ELSE LET before == SaveStageDurations(temp_df, rows, k - 1)
             sleep_stage == stage_value_col_keys[k]
         IN  IF sleep_stage \in sleep_stages_duration_index(rows)
             THEN (stage_value_col_dict[sleep_stage]
                      :> sleep_stages_duration(rows, sleep_stage) * 1000) @@ before
             ELSE (SLEEP_DEEP_DURATION_IN_MS_COL :> 0) @@ before

\* lines 246-294 for one document of the query: its row, or the exception
SummaryRow(sleep_summary) ==
    LET temp_df == Drop(sleep_summary.data, {"levels"})
        sleep_stages_df == _merge_sleep_data_and_sleep_short_data(sleep_summary)
    IN  IF sleep_stages_df.status = "error" THEN sleep_stages_df
        ELSE IF sleep_stages_df.rows = <<>> THEN Raise("KeyError")
        ELSE Return(SaveStageDurations(temp_df, sleep_stages_df.rows,
                                       Len(stage_value_col_keys)))

\* SummaryDecorate that renames the end time instead of the start time
SummaryDecorate_renames_end(row) ==
    LET renamed == Rename(row, "endTime", ISODATE_COL)
    IN  (UNIXTIMESTAMP_IN_MS_COL :> renamed[ISODATE_COL] * 1000)
        @@ (TIMEZONEOFFSET_IN_MS_COL :> 0) @@ renamed

\* lines 295-322 on one row of the concatenated frame
SummaryDecorate(row) ==
    LET renamed == Rename(row, "startTime", ISODATE_COL)
    IN  (UNIXTIMESTAMP_IN_MS_COL :> renamed[ISODATE_COL] * 1000)
        @@ (TIMEZONEOFFSET_IN_MS_COL :> 0) @@ renamed

\* the outcomes of load_sleep_summary once the user id is known
SleepSummaryOutcomes(user_id, start_date, end_date) ==
    LET date_filter == _get_start_and_end_date_time_filter_dict(
                          "dateOfSleep", NoKey, start_date, end_date)
        filtered_coll == aggregate("sleep", user_id, date_filter.match)
        per_log == [i \in 1..Len(filtered_coll) |-> SummaryRow(filtered_coll[i])]
        failed == {i \in 1..Len(per_log) : per_log[i].status = "error"}
        rows == [i \in 1..Len(per_log) |-> per_log[i].rows]
    IN  IF date_filter.error # ""
        THEN {[queries |-> <<"distinct">>, result |-> Raise(date_filter.error)]}
        ELSE IF failed # {}
        THEN {[queries |-> <<"distinct", "aggregate">>,
               result |-> per_log[CHOOSE i \in failed : \A j \in failed : i <= j]]}
        ELSE IF rows = <<>>
        THEN {[queries |-> <<"distinct", "aggregate">>, result |-> ReturnTable(<<>>)]}
        ELSE {[queries |-> <<"distinct", "aggregate">>, result |-> ReturnTable(sorted)] :
                sorted \in sort_values([i \in 1..Len(rows) |-> SummaryDecorate(rows[i])],
                                       "dateOfSleep")}

(***************************************************************************)
(* load_sleep_stage                                                        *)
(***************************************************************************)
\* StageRows that tags the rows with the log id of the first document
StageRows_first_log_id(sleep_entry, include_short_data) ==
    LET sleep_data_df_ ==
            IF include_short_data
            THEN _merge_sleep_data_and_sleep_short_data(sleep_entry)
            ELSE IF "levels" \notin DOMAIN sleep_entry.data THEN Raise("KeyError")
            ELSE IF "data" \notin DOMAIN sleep_entry.data.levels THEN Raise("KeyError")
            ELSE Return(sleep_data_df(sleep_entry.data.levels.data))
    IN  IF sleep_data_df_.status = "error" THEN sleep_data_df_
        ELSE Return([i \in 1..Len(sleep_data_df_.rows) |->
                        ("logId" :> fitbit_collection[1].data.logId)
                            @@ sleep_data_df_.rows[i]])

\* lines 515-533 for one document of the query: its rows tagged with the
\* log id, or the exception
StageRows(sleep_entry, include_short_data) ==
    LET sleep_data_df_ ==
            IF include_short_data
            THEN _merge_sleep_data_and_sleep_short_data(sleep_entry)
            ELSE IF "levels" \notin DOMAIN sleep_entry.data THEN Raise("KeyError")
            ELSE IF "data" \notin DOMAIN sleep_entry.data.levels THEN Raise("KeyError")
            ELSE Return(sleep_data_df(sleep_entry.data.levels.data))
    IN  IF sleep_data_df_.status = "error" THEN sleep_data_df_
        ELSE Return([i \in 1..Len(sleep_data_df_.rows) |->
                        ("logId" :> sleep_entry.data.logId) @@ sleep_data_df_.rows[i]])

\* lines 538-559 on one row of the concatenated frame
StageDecorate(row) ==
    LET iso == Rename(row, "dateTime", ISODATE_COL)
    IN  (UNIXTIMESTAMP_IN_MS_COL :> iso[ISODATE_COL] * 1000)
        @@ (TIMEZONEOFFSET_IN_MS_COL :> 0) @@ iso

\* the outcomes of load_sleep_stage once the user id is known
SleepStageOutcomes(user_id, start_date, end_date, include_short_data) ==
    LET compared == compare_dates(start_date, end_date)
        date_filter == _get_start_and_end_date_time_filter_dict(
                          "startTime", NoKey, start_date, end_date)
        filtered_coll == aggregate("sleep", user_id, date_filter.match)
        per_log == [i \in 1..Len(filtered_coll) |->
                        StageRows(filtered_coll[i], include_short_data)]
        failed == {i \in 1..Len(per_log) : per_log[i].status = "error"}
        rows == Flatten([i \in 1..Len(per_log) |-> per_log[i].rows])
    IN  IF compared # "True"
        THEN {[queries |-> <<"distinct">>, result |-> Raise(compared)]}
        ELSE IF date_filter.error # ""
        THEN {[queries |-> <<"distinct">>, result |-> Raise(date_filter.error)]}
        ELSE IF failed # {}
        THEN {[queries |-> <<"distinct", "aggregate">>,
               result |-> per_log[CHOOSE i \in failed : \A j \in failed : i <= j]]}
        ELSE IF rows = <<>>
        THEN {[queries |-> <<"distinct", "aggregate">>, result |-> ReturnTable(<<>>)]}
        ELSE {[queries |-> <<"distinct", "aggregate">>, result |-> ReturnTable(sorted)] :
                sorted \in sort_values([i \in 1..Len(rows) |-> StageDecorate(rows[i])],
                                       UNIXTIMESTAMP_IN_MS_COL)}

(***************************************************************************)
(* load_metric                                                             *)
(***************************************************************************)
METRIC_ALTITUDE == "altitude"
METRIC_COMP_TEMP == "temprature-computed"

METRIC_STEPS == "steps"

Metrics == {METRIC_ALTITUDE, METRIC_COMP_TEMP}

\* the entries of _METRIC_DICT for the metrics of the model
METRIC_DICT ==
    [m \in Metrics \cup {METRIC_STEPS} |->
        IF m = METRIC_ALTITUDE
        THEN [metric_key |-> "altitude", start_date_key |-> "dateTime",
              end_date_key |-> NoKey]
        ELSE IF m = METRIC_STEPS
        THEN [metric_key |-> "steps", start_date_key |-> "dateTime",
              end_date_key |-> NoKey]
        ELSE [metric_key |-> "Computed Temperature", start_date_key |-> "sleep_start",
              end_date_key |-> "sleep_end"]]

\* _setup_datetime_columns that leaves out the time zone offset column
_setup_datetime_columns_no_offset(row, metric) ==
    IF METRIC_DICT[metric].start_date_key # NoKey
    THEN LET renamed == Rename(row, METRIC_DICT[metric].start_date_key, ISODATE_COL)
         IN  (UNIXTIMESTAMP_IN_MS_COL :> renamed[ISODATE_COL] * 1000) @@ renamed
    ELSE row

\* _setup_datetime_columns on one row of a frame that has rows
_setup_datetime_columns(row, metric) ==
    IF METRIC_DICT[metric].start_date_key # NoKey
    THEN LET renamed == Rename(row, METRIC_DICT[metric].start_date_key, ISODATE_COL)
         IN  (UNIXTIMESTAMP_IN_MS_COL :> renamed[ISODATE_COL] * 1000)
             @@ (TIMEZONEOFFSET_IN_MS_COL :> 0) @@ renamed
    ELSE row

\* the outcomes of load_metric once the user id is known
MetricOutcomes(metric, user_id, start_date, end_date) ==
    LET metric_start_key == METRIC_DICT[metric].start_date_key
        metric_end_key == METRIC_DICT[metric].end_date_key
        date_filter_dict == _get_start_and_end_date_time_filter_dict(
                               metric_start_key, metric_end_key, start_date, end_date)
        filtered_coll == aggregate(METRIC_DICT[metric].metric_key, user_id,
                                   date_filter_dict.match)
        list_of_metric_dict == [i \in 1..Len(filtered_coll) |-> filtered_coll[i].data]
    IN  IF date_filter_dict.error # ""
        THEN {[queries |-> <<"distinct">>, result |-> Raise(date_filter_dict.error)]}
        ELSE IF list_of_metric_dict = <<>>
        THEN {[queries |-> <<"distinct", "aggregate">>, result |-> ReturnTable(<<>>)]}
        ELSE IF metric_start_key = NoKey
        THEN {[queries |-> <<"distinct", "aggregate">>,
               result |-> ReturnTable(list_of_metric_dict)]}
        ELSE {[queries |-> <<"distinct", "aggregate">>,
               result |-> ReturnTable([i \in 1..Len(sorted) |->
                                          _setup_datetime_columns(sorted[i], metric)])] :
                sorted \in sort_values(list_of_metric_dict, metric_start_key)}

(***************************************************************************)
(* load_steps                                                              *)
(***************************************************************************)
STEPS_COL == "steps"
TOTAL_STEPS_COL == "totalSteps"
CALENDAR_DATE_COL == "calendarDate"

\* the step counts the documents store, as strings, and astype("int64") of them
StepsValues == {"3", "12"}
astype_int64 == [v \in StepsValues |-> IF v = "3" THEN 3 ELSE 12]

\* pd.to_datetime(isoDate.dt.strftime("%Y-%m-%d")): the midnight of the day
strftime_date(t) == (t \div DaySeconds) * DaySeconds

\* cumsum that runs over the whole frame, the calendar date not looked at
RECURSIVE groupby_cumsum_ungrouped(_, _, _, _)
groupby_cumsum_ungrouped(rows, by, col, i) ==
    IF i = 0 THEN 0
    ELSE rows[i][col] + groupby_cumsum_ungrouped(rows, by, col, i - 1)

\* groupby([by])[col].cumsum() at row i: the sum of col over the rows up to i
\* that hold the value of row i in the column by
RECURSIVE GroupSum(_, _, _, _, _)
GroupSum(rows, by, col, key, k) ==
    IF k = 0 THEN 0
    ELSE (IF rows[k][by] = key THEN rows[k][col] ELSE 0)
         + GroupSum(rows, by, col, key, k - 1)

groupby_cumsum(rows, by, col, i) == GroupSum(rows, by, col, rows[i][by], i)

\* lines 1195-1211 on a frame that has rows
StepsFrame(steps) ==
    LET renamed == [i \in 1..Len(steps) |-> Rename(steps[i], "value", STEPS_COL)]
        dated == [i \in 1..Len(steps) |->
                     (CALENDAR_DATE_COL :> strftime_date(renamed[i][ISODATE_COL]))
                     @@ [renamed[i] EXCEPT ![STEPS_COL] = astype_int64[@]]]
    IN  [i \in 1..Len(steps) |->
            Drop((TOTAL_STEPS_COL :>
                     groupby_cumsum(dated, CALENDAR_DATE_COL, STEPS_COL, i))
                 @@ dated[i], {CALENDAR_DATE_COL})]

\* the outcomes of load_steps once load_metric has found the user id; the
\* order of the columns is not part of a table
StepsOutcomes(user_id, start_date, end_date) ==
    {IF o.result.status = "ok" /\ Len(o.result.rows) > 0
     THEN [queries |-> o.queries, result |-> ReturnTable(StepsFrame(o.result.rows))]
     ELSE o :
        o \in MetricOutcomes(METRIC_STEPS, user_id, start_date, end_date)}

(***************************************************************************)
(* The documents of the fitbit collection the model draws from.            *)
(* Coarse events start at strictly increasing instants (they may leave     *)
(* gaps and need not last a multiple of 30 seconds); shortData entries do  *)
(* not overlap and may carry any level label.                              *)
(***************************************************************************)
CoarseStarts == {0, 30}
CoarseSeconds == {30, 45, 60}
CoarseGaps == {0, 30}
\* the merger compares coarse levels for equality only; rem enters through
\* shortData labels
CoarseLevels == {STAGE_WAKE_VALUE, STAGE_DEEP_VALUE, STAGE_LIGHT_VALUE}
ShortStarts == {0, 15, 30}
ShortSeconds == {20, 45, 60}
ShortLabels == {STAGE_WAKE_VALUE, STAGE_REM_VALUE}

Event(t, l, d) == [dateTime |-> t, level |-> l, seconds |-> d]

RECURSIVE CoarseSeqs(_)
CoarseSeqs(n) ==
    IF n = 0 THEN {<<>>}
    ELSE IF n = 1
    THEN {<<Event(t, l, d)>> : t \in CoarseStarts, l \in CoarseLevels, d \in CoarseSeconds}
    ELSE {Append(p, Event(Last(p).dateTime + Last(p).seconds + g, l, d)) :
            p \in CoarseSeqs(n - 1), g \in CoarseGaps,
            l \in CoarseLevels, d \in CoarseSeconds}

RECURSIVE ShortSeqs(_)
ShortSeqs(n) ==
    IF n = 0 THEN {<<>>}
    ELSE IF n = 1
    THEN {<<Event(t, l, d)>> : t \in ShortStarts, l \in ShortLabels, d \in ShortSeconds}
    ELSE UNION {{Append(p, Event(t, l, d)) :
                    t \in {u \in ShortStarts :
                             \A k \in 1..(n - 1) : u >= p[k].dateTime + p[k].seconds},
                    l \in ShortLabels, d \in ShortSeconds} :
                p \in ShortSeqs(n - 1)}

CoarseInputs == UNION {CoarseSeqs(n) : n \in 1..MaxCoarse}
ShortInputs == UNION {ShortSeqs(n) : n \in 0..MaxShort}

\* the concrete scenario of the specification, for each first start
ScenarioInputs ==
    {[data |-> <<Event(t0, STAGE_LIGHT_VALUE, 60), Event(t0 + 60, STAGE_DEEP_VALUE, 90)>>,
      shortData |-> <<Event(t0 + 30, l, 20)>>] : t0 \in CoarseStarts, l \in ShortLabels}

\* logs whose short-wake data start a minute before the one coarse event and
\* end before it
LateCoarseInputs ==
    {[data |-> <<Event(60, l, d)>>, shortData |-> <<Event(0, sl, sd)>>] :
        l \in CoarseLevels, d \in CoarseSeconds,
        sl \in ShortLabels, sd \in {20, 45}}

\* data.levels of a sleep document over the coarse list c: shortData is a
\* key that may be missing
LevelsInputs(c) ==
    {[data |-> c]} \cup {[data |-> c, shortData |-> s] : s \in ShortInputs}

SleepDoc(user, logId, dateOfSleep, levels) ==
    [type |-> "sleep", id |-> user,
     data |-> [logId |-> logId, dateOfSleep |-> dateOfSleep,
               startTime |-> levels.data[1].dateTime,
               endTime |-> Last(levels.data).dateTime + Last(levels.data).seconds,
               duration |-> 1000 * (Last(levels.data).dateTime + Last(levels.data).seconds
                                    - levels.data[1].dateTime),
               levels |-> levels]]

(***************************************************************************)
(* The merger applied to one sleep document.                               *)
(***************************************************************************)
InitMerge ==
    /\ \/ \E c \in CoarseInputs : \E lv \in LevelsInputs(c) :
              fitbit_collection = <<SleepDoc("u1", 1, 0, lv)>>
       \/ \E lv \in ScenarioInputs \cup LateCoarseInputs :
              fitbit_collection = <<SleepDoc("u1", 1, 0, lv)>>
    /\ call = NoCall
    /\ result = NoResult
    /\ queries = <<>>

MergeCall ==
    /\ call = NoCall
    /\ call' = [op |-> "merge"]
    /\ result' = _merge_sleep_data_and_sleep_short_data(fitbit_collection[1])
    /\ UNCHANGED <<fitbit_collection, queries>>

NextMerge == MergeCall

SpecMerge == InitMerge /\ [][NextMerge]_vars

(***************************************************************************)
(* The public operations.  A call runs to completion in one step; the      *)
(* loader keeps no state between calls, so a behaviour makes one call.     *)
(***************************************************************************)
LoadSleepSummary(user_id, start_date, end_date) ==
    /\ call = NoCall
    /\ call' = [op |-> "load_sleep_summary", user_id |-> user_id,
                start_date |-> start_date, end_date |-> end_date]
    /\ IF user_id \notin get_user_ids
       THEN result' = Raise("ValueError") /\ queries' = <<"distinct">>
       ELSE \E o \in SleepSummaryOutcomes(user_id, convert_to_datetime(start_date),
                                          convert_to_datetime(end_date)) :
                result' = o.result /\ queries' = o.queries
    /\ UNCHANGED fitbit_collection

LoadSleepStage(user_id, start_date, end_date, include_short_data) ==
    /\ call = NoCall
    /\ call' = [op |-> "load_sleep_stage", user_id |-> user_id,
                start_date |-> start_date, end_date |-> end_date,
                include_short_data |-> include_short_data]
    /\ IF user_id \notin get_user_ids
       THEN result' = Raise("ValueError") /\ queries' = <<"distinct">>
       ELSE \E o \in SleepStageOutcomes(user_id, convert_to_datetime(start_date),
                                        convert_to_datetime(end_date),
                                        include_short_data) :
                result' = o.result /\ queries' = o.queries
    /\ UNCHANGED fitbit_collection

LoadMetric(metric, user_id, start_date, end_date) ==
    /\ call = NoCall
    /\ call' = [op |-> "load_metric", metric |-> metric, user_id |-> user_id,
                start_date |-> start_date, end_date |-> end_date]
    /\ IF user_id \notin get_user_ids
       THEN result' = Raise("ValueError") /\ queries' = <<"distinct">>
       ELSE \E o \in MetricOutcomes(metric, user_id, convert_to_datetime(start_date),
                                    convert_to_datetime(end_date)) :
                result' = o.result /\ queries' = o.queries
    /\ UNCHANGED fitbit_collection

LoadSteps(user_id, start_date, end_date) ==
    /\ call = NoCall
    /\ call' = [op |-> "load_steps", user_id |-> user_id,
                start_date |-> start_date, end_date |-> end_date]
    /\ IF user_id \notin get_user_ids
       THEN result' = Raise("ValueError") /\ queries' = <<"distinct">>
       ELSE \E o \in StepsOutcomes(user_id, convert_to_datetime(start_date),
                                    convert_to_datetime(end_date)) :
                result' = o.result /\ queries' = o.queries
    /\ UNCHANGED fitbit_collection

(***************************************************************************)
(* The collections and the arguments of the loader specification.          *)
(***************************************************************************)
MaxLogs == 2
MaxMetricDocs == 2

\* the ids with documents in the model, and the id of the calls: a
\* collection that holds documents of "u2" only does not know "u1"
StoredUsers == {"u1", "u2"}
Users == {"u1"}

DateArgs == {None,
             [kind |-> "datetime", t |-> 0],
             [kind |-> "date", day |-> 1],
             [kind |-> "str", t |-> DaySeconds + 30]}

ShiftEvents(events, by) ==
    [i \in 1..Len(events) |-> [events[i] EXCEPT !.dateTime = @ + by]]

ShiftLevels(levels, by) ==
    [k \in DOMAIN levels |-> ShiftEvents(levels[k], by)]

\* the levels of the sleep logs of the loader specification
LoaderLevels ==
    {[data |-> <<Event(0, STAGE_LIGHT_VALUE, 60), Event(60, STAGE_DEEP_VALUE, 90)>>,
      shortData |-> <<Event(30, STAGE_WAKE_VALUE, 20)>>],
     [data |-> <<Event(0, STAGE_LIGHT_VALUE, 45), Event(45, STAGE_LIGHT_VALUE, 30)>>],
     [data |-> <<Event(0, STAGE_REM_VALUE, 60)>>, shortData |-> <<>>],
     [data |-> <<Event(0, STAGE_DEEP_VALUE, 60)>>,
      shortData |-> <<Event(15, STAGE_WAKE_VALUE, 20)>>],
     [data |-> <<Event(30, STAGE_DEEP_VALUE, 30), Event(60, STAGE_REM_VALUE, 60)>>,
      shortData |-> <<Event(0, STAGE_WAKE_VALUE, 60)>>]}

\* a sleep document whose levels hold a summary and no data array
MalformedSleepDoc(user, logId, dateOfSleep, startTime) ==
    [type |-> "sleep", id |-> user,
     data |-> [logId |-> logId, dateOfSleep |-> dateOfSleep,
               startTime |-> startTime, endTime |-> startTime + 60,
               duration |-> 60000,
               levels |-> [summary |-> 0]]]

\* a log starts on day 0 or day 1; dateOfSleep is the day it starts or the next
LoaderSleepDocs(logId) ==
    {SleepDoc("u1", logId, p[2] * DaySeconds, ShiftLevels(lv, p[1] * DaySeconds)) :
        lv \in LoaderLevels, p \in {<<0, 0>>, <<0, 1>>, <<1, 1>>}}
    \cup {MalformedSleepDoc("u1", logId, 0, 0)}

RECURSIVE SleepCollections(_)
SleepCollections(n) ==
    IF n = 0 THEN {<<>>}
    ELSE UNION {{Append(c, d), <<d>> \o c} :
                    c \in SleepCollections(n - 1), d \in LoaderSleepDocs(n)}

MetricDoc(metric, user, t) ==
    IF metric = METRIC_ALTITUDE
    THEN [type |-> "altitude", id |-> user, data |-> [dateTime |-> t, value |-> 7]]
    ELSE [type |-> "Computed Temperature", id |-> user,
          data |-> [sleep_start |-> t, sleep_end |-> t + 60, nightly_temperature |-> 7]]

MetricDocs ==
    {MetricDoc(m, u, t) : m \in Metrics, u \in StoredUsers, t \in {0, DaySeconds}}

RECURSIVE MetricCollections(_)
MetricCollections(n) ==
    IF n = 0 THEN {<<>>}
    ELSE {Append(c, d) : c \in MetricCollections(n - 1), d \in MetricDocs}

Init ==
    /\ \/ \E n \in 1..MaxLogs : \E c \in SleepCollections(n - 1) :
              \E d \in LoaderSleepDocs(n) :
                 fitbit_collection \in {Append(c, d), <<d>> \o c}
       \/ \E n \in 1..MaxMetricDocs : \E c \in MetricCollections(n - 1) :
              \E d \in MetricDocs : fitbit_collection = Append(c, d)
    /\ call = NoCall
    /\ result = NoResult
    /\ queries = <<>>

Next ==
    \/ \E u \in Users, sd \in DateArgs, ed \in DateArgs :
          LoadSleepSummary(u, sd, ed)
    \/ \E u \in Users, sd \in DateArgs, ed \in DateArgs, isd \in BOOLEAN :
          LoadSleepStage(u, sd, ed, isd)
    \/ \E m \in Metrics, u \in Users, sd \in DateArgs, ed \in DateArgs :
          LoadMetric(m, u, sd, ed)

Spec == Init /\ [][Next]_vars

\* load_sleep_summary over every sleep document of the merger specification
NextSummary == LoadSleepSummary("u1", None, None)

SpecSummary == InitMerge /\ [][NextSummary]_vars

\* load_steps over collections of steps documents, stored in any order
MaxStepsDocs == 3

StepsDoc(user, t, value) ==
    [type |-> "steps", id |-> user, data |-> [dateTime |-> t, value |-> value]]

StepsDocs ==
    {StepsDoc("u1", t, v) : t \in {0, 30, DaySeconds, DaySeconds + 30},
                            v \in StepsValues}
    \cup {StepsDoc("u2", 0, "3")}

InitSteps ==
    /\ \E n \in 1..MaxStepsDocs :
          fitbit_collection \in [1..n -> StepsDocs]
    /\ call = NoCall
    /\ result = NoResult
    /\ queries = <<>>

NextSteps == \E u \in Users, sd \in DateArgs, ed \in DateArgs : LoadSteps(u, sd, ed)

SpecSteps == InitSteps /\ [][NextSteps]_vars

(***************************************************************************)
(* Claims about the merger, checked under SpecMerge.                       *)
(***************************************************************************)
MergedLevels == fitbit_collection[1].data.levels
HasShortData == "shortData" \in DOMAIN MergedLevels
MergeReturned == call.op = "merge" /\ result.status = "ok"
MergeReturnedWithShort == MergeReturned /\ HasShortData

Min(a, b) == IF a < b THEN a ELSE b
Max(a, b) == IF a > b THEN a ELSE b

\* the end of a shortData entry once cut into 30-second windows
NormalizedEnd(e) ==
    IF e.seconds > 30 THEN e.dateTime + 30 * (e.seconds \div 30)
    ELSE e.dateTime + e.seconds

grid_start == Min(MergedLevels.data[1].dateTime, MergedLevels.shortData[1].dateTime)
grid_end == Max(Last(MergedLevels.data).dateTime + Last(MergedLevels.data).seconds,
                NormalizedEnd(Last(MergedLevels.shortData)))

NoAdjacentDuplicates(rows) ==
    \A i \in 1..(Len(rows) - 1) : rows[i].level # rows[i + 1].level

GapFree(rows) ==
    /\ \A i \in 1..Len(rows) : rows[i].seconds > 0
    /\ \A i \in 1..(Len(rows) - 1) :
          rows[i + 1].dateTime = rows[i].dateTime + rows[i].seconds

Contiguous(events) ==
    \A i \in 1..(Len(events) - 1) :
        events[i + 1].dateTime = events[i].dateTime + events[i].seconds

\* the rows of the output that contain instant g
RowsAt(rows, g) ==
    {i \in 1..Len(rows) : rows[i].dateTime <= g /\ g < rows[i].dateTime + rows[i].seconds}

\* C1: span coverage. Whenever the merger returns for a log with shortData,
\* the durations of its intervals sum to 30 * floor((grid_end - grid_start) / 30),
\* which is the span minus at most 29 seconds, and the intervals run from
\* grid_start, so the seconds left out are the last ones of the span.
C1_SpanCoverage ==
    MergeReturnedWithShort =>
        /\ SumSeconds(result.rows) = 30 * ((grid_end - grid_start) \div 30)
        /\ (grid_end - grid_start) - SumSeconds(result.rows) \in 0..29
        /\ result.rows[1].dateTime = grid_start
        /\ Last(result.rows).dateTime + Last(result.rows).seconds
              = grid_start + SumSeconds(result.rows)

C1_Witness ==
    /\ MergeReturnedWithShort
    /\ Len(result.rows) >= 2
    /\ (grid_end - grid_start) % 30 # 0
    /\ MergedLevels.shortData[1].dateTime < MergedLevels.data[1].dateTime

C3_OverridePrecedence ==
    MergeReturnedWithShort =>
        \A k \in 1..Len(MergedLevels.shortData) :
            \A g \in grid_start..grid_end :
                LET e == MergedLevels.shortData[k]
                IN  (/\ (g - grid_start) % 30 = 0
                     /\ g + 30 <= grid_start + SumSeconds(result.rows)
                     /\ \/ g = e.dateTime
                        \/ (e.dateTime <= g /\ g + 30 <= e.dateTime + e.seconds))
                    => /\ RowsAt(result.rows, g) # {}
                       /\ \A i \in RowsAt(result.rows, g) :
                             result.rows[i].level = STAGE_WAKE_VALUE

C3_Witness ==
    /\ MergeReturnedWithShort
    /\ \E k \in 1..Len(MergedLevels.shortData) :
          LET e == MergedLevels.shortData[k]
          IN  /\ e.level # STAGE_WAKE_VALUE
              /\ e.seconds = 60
              /\ \E c \in 1..Len(MergedLevels.data) :
                    /\ MergedLevels.data[c].dateTime = e.dateTime
                    /\ MergedLevels.data[c].seconds >= 60
                    /\ MergedLevels.data[c].level = STAGE_DEEP_VALUE
              /\ \E i \in 1..Len(result.rows) :
                    /\ result.rows[i].dateTime = e.dateTime
                    /\ result.rows[i].level = STAGE_WAKE_VALUE
                    /\ result.rows[i].seconds >= 60

C5_Scenario ==
    \A t0 \in CoarseStarts : \A l \in ShortLabels :
        (/\ call.op = "merge"
         /\ MergedLevels = [data |-> <<Event(t0, STAGE_LIGHT_VALUE, 60),
                                       Event(t0 + 60, STAGE_DEEP_VALUE, 90)>>,
                            shortData |-> <<Event(t0 + 30, l, 20)>>])
        => result = Return(<<Event(t0, STAGE_LIGHT_VALUE, 30),
                             Event(t0 + 30, STAGE_WAKE_VALUE, 30),
                             Event(t0 + 60, STAGE_DEEP_VALUE, 90)>>)

C5_Witness ==
    /\ call.op = "merge"
    /\ MergedLevels = [data |-> <<Event(0, STAGE_LIGHT_VALUE, 60),
                                  Event(60, STAGE_DEEP_VALUE, 90)>>,
                       shortData |-> <<Event(30, STAGE_WAKE_VALUE, 20)>>]
    /\ result.status = "ok"
    /\ Len(result.rows) = 3

\* the coarse events alone put on the 30-second grid, forward-filled and
\* coalesced, with no override applied
ResampledCoarse(data) ==
    LET index == new_sleep_data_df_index(data[1].dateTime,
                                         Last(data).dateTime + Last(data).seconds)
    IN  Coalesce(index, ffill(AlignedLevel(index, data), Len(index)), Len(index))

NoShortWakeEvents == ~HasShortData \/ MergedLevels.shortData = <<>>

\* C6: with an empty or absent shortData the merger returns without error
\* the coarse sequence resampled to the 30-second grid and coalesced.
C6_EmptyShortInput ==
    (call.op = "merge" /\ NoShortWakeEvents)
    => result = Return(ResampledCoarse(MergedLevels.data))

Levels(rows) == [i \in 1..Len(rows) |-> rows[i].level]

AlternatesEvery30(events) ==
    /\ Contiguous(events)
    /\ \A i \in 1..Len(events) : events[i].seconds = 30
    /\ NoAdjacentDuplicates(events)

GridIndex == new_sleep_data_df_index(grid_start, grid_end)
CoarseFilled == ffill(AlignedLevel(GridIndex, MergedLevels.data), Len(GridIndex))

Covers(e, g) == e.dateTime <= g /\ g < e.dateTime + e.seconds

\* C17: grid stage assignment. Before the short-wake overlay, every grid
\* bucket whose start lies in [e.start, e.start + e.duration) of a coarse
\* event e holds e's stage, also when coarse events start off the grid.
C17_GridStageAssignment ==
    MergeReturnedWithShort =>
        \A i \in 1..Len(GridIndex) : \A k \in 1..Len(MergedLevels.data) :
            Covers(MergedLevels.data[k], GridIndex[i])
            => CoarseFilled[i] = MergedLevels.data[k].level

\* C18: forward-fill only. Before the short-wake overlay, a grid bucket that
\* starts before the first coarse event holds no coarse stage (nothing is
\* filled backward), and every bucket at or after the start of the last
\* coarse event holds the stage of the last coarse event.
C18_ForwardFillOnly ==
    MergeReturnedWithShort =>
        \A i \in 1..Len(GridIndex) :
            /\ GridIndex[i] < MergedLevels.data[1].dateTime
                  => CoarseFilled[i] = NaN
            /\ GridIndex[i] >= Last(MergedLevels.data).dateTime
                  => CoarseFilled[i] = Last(MergedLevels.data).level

\* the normalized short-wake list of the merged log
Normalized == sleep_short_data_list_copy(MergedLevels.shortData)

\* the number of normalized entries made from the first k shortData entries
RECURSIVE NormalizedBefore(_)
NormalizedBefore(k) ==
    IF k = 0 THEN 0
    ELSE NormalizedBefore(k - 1)
         + (IF MergedLevels.shortData[k].seconds > 30
            THEN MergedLevels.shortData[k].seconds \div 30 ELSE 1)

\* the level of the output at instant g
OutputLevelsAt(g) == {result.rows[i].level : i \in RowsAt(result.rows, g)}

\* C19: short-wake normalization. A shortData entry with start s and
\* d > 30 seconds becomes exactly floor(d / 30) consecutive wake entries of
\* 30 seconds at s, s + 30, ..., and nothing stands for the d mod 30 seconds
\* left: the bucket at s + 30 * floor(d / 30) keeps its coarse-derived stage
\* in the output.  short_end is the start of the last normalized entry plus
\* its seconds, s + 30 * floor(d / 30) when the last entry has d > 30.
C19_ShortWakeNormalization ==
    (call.op = "merge" /\ HasShortData /\ MergedLevels.shortData # <<>>)
    => /\ Len(Normalized) = NormalizedBefore(Len(MergedLevels.shortData))
       /\ \A k \in 1..Len(MergedLevels.shortData) :
             LET e == MergedLevels.shortData[k]
                 n == e.seconds \div 30
                 first == NormalizedBefore(k - 1)
             IN  e.seconds > 30 =>
                   /\ \A j \in 1..n :
                         Normalized[first + j] =
                             Event(e.dateTime + 30 * (j - 1), STAGE_WAKE_VALUE, 30)
                   /\ NormalizedBefore(k) = first + n
                   /\ (/\ result.status = "ok"
                        /\ \E i \in 1..Len(GridIndex) :
                              GridIndex[i] = e.dateTime + 30 * n
                        /\ \A m \in 1..Len(Normalized) :
                              Normalized[m].dateTime # e.dateTime + 30 * n)
                       => \A i \in 1..Len(GridIndex) :
                             GridIndex[i] = e.dateTime + 30 * n
                             => OutputLevelsAt(GridIndex[i]) = {CoarseFilled[i]}
       /\ LET e == Last(MergedLevels.shortData)
          IN  e.seconds > 30 =>
                Last(Normalized).dateTime + Last(Normalized).seconds
                    = e.dateTime + 30 * (e.seconds \div 30)
       /\ result.status = "ok" =>
             SumSeconds(result.rows)
                = 30 * ((Max(Last(MergedLevels.data).dateTime
                               + Last(MergedLevels.data).seconds,
                             Last(Normalized).dateTime + Last(Normalized).seconds)
                         - grid_start) \div 30)

C19_Witness ==
    /\ MergeReturnedWithShort
    /\ \E k \in 1..Len(MergedLevels.shortData) :
          LET e == MergedLevels.shortData[k]
          IN  /\ e.seconds = 45
              /\ \E c \in 1..Len(MergedLevels.data) :
                    /\ MergedLevels.data[c].dateTime = e.dateTime
                    /\ MergedLevels.data[c].seconds = 60
                    /\ MergedLevels.data[c].level = STAGE_DEEP_VALUE
              /\ OutputLevelsAt(e.dateTime) = {STAGE_WAKE_VALUE}
              /\ OutputLevelsAt(e.dateTime + 30) = {STAGE_DEEP_VALUE}

\* C20: a shortData entry of at most 30 seconds that starts off the grid is
\* inserted at its own start: the merger returns, and its output has a wake
\* interval that starts at the start of the entry.
C20_OffGridShortWake ==
    (call.op = "merge" /\ HasShortData /\ MergedLevels.shortData # <<>>)
    => \A k \in 1..Len(MergedLevels.shortData) :
          LET e == MergedLevels.shortData[k]
          IN  (e.seconds <= 30 /\ (e.dateTime - grid_start) % 30 # 0)
              => /\ result.status = "ok"
                 /\ \E i \in 1..Len(result.rows) :
                       /\ result.rows[i].dateTime = e.dateTime
                       /\ result.rows[i].level = STAGE_WAKE_VALUE

ShortStartAt(g) == \E k \in 1..Len(Normalized) : Normalized[k].dateTime = g

\* C26: the forward fill of the coarse stages runs before the short-wake
\* overlay, so an override never propagates forward: a grid bucket that is
\* not the start of a normalized short-wake entry keeps its forward-filled
\* coarse stage, also when the bucket before it was overridden.
C26_OverlayAfterFill ==
    MergeReturnedWithShort =>
        \A i \in 1..Len(GridIndex) :
            ~ShortStartAt(GridIndex[i])
            => OutputLevelsAt(GridIndex[i]) = {CoarseFilled[i]}

C26_Witness ==
    /\ MergeReturnedWithShort
    /\ \E i \in 2..Len(GridIndex) :
          /\ ShortStartAt(GridIndex[i - 1])
          /\ ~ShortStartAt(GridIndex[i])
          /\ OutputLevelsAt(GridIndex[i - 1]) = {STAGE_WAKE_VALUE}
          /\ CoarseFilled[i] = STAGE_DEEP_VALUE
          /\ OutputLevelsAt(GridIndex[i]) = {STAGE_DEEP_VALUE}

CoarseOnGrid ==
    \A k \in 1..Len(MergedLevels.data) :
        (MergedLevels.data[k].dateTime - grid_start) % 30 = 0

\* C25: every interval the merger returns has a stage in {deep, light, rem,
\* wake}, also when the short-wake data start before the first coarse event
\* and end before it.  Stated for the logs whose coarse events all start on
\* the grid.
C25_DefinedStages ==
    (MergeReturned /\ (HasShortData => CoarseOnGrid))
    => \A i \in 1..Len(result.rows) : result.rows[i].level \in Stages

(***************************************************************************)
(* Claims about load_sleep_summary, checked under SpecSummary.             *)
(***************************************************************************)
SummaryReturned == call.op = "load_sleep_summary" /\ result.status = "ok"

\* the document of the collection a row of the summary was made from
LogOf(row) ==
    fitbit_collection[CHOOSE i \in 1..Len(fitbit_collection) :
                          /\ fitbit_collection[i].type = "sleep"
                          /\ fitbit_collection[i].data.logId = row.logId]

MergedOf(row) == _merge_sleep_data_and_sleep_short_data(LogOf(row)).rows

StagesOf(rows) == {rows[i].level : i \in 1..Len(rows)}

\* C8: summary consistency. Each of the four per-stage duration columns of a
\* log's row equals 1000 times the sum of the seconds of the intervals of
\* that stage the merger produces for the log.
C8_SummaryConsistency ==
    SummaryReturned =>
        \A i \in 1..Len(result.rows) : \A st \in Stages :
            /\ stage_value_col_dict[st] \in DOMAIN result.rows[i]
            /\ result.rows[i][stage_value_col_dict[st]]
                  = 1000 * sleep_stages_duration(MergedOf(result.rows[i]), st)

\* C9: a stage with no interval in a log's merged sequence has 0 in its own
\* duration column of the log's row, and the cell is never missing.
C9_ZeroForAbsentStage ==
    SummaryReturned =>
        \A i \in 1..Len(result.rows) : \A st \in Stages :
            st \notin StagesOf(MergedOf(result.rows[i]))
            => /\ stage_value_col_dict[st] \in DOMAIN result.rows[i]
               /\ result.rows[i][stage_value_col_dict[st]] = 0

\* the stages with no interval in the merged sequence of the log of a row
MissingStages(row) == Stages \ StagesOf(MergedOf(row))

\* C22: deep-column inconsistency. In a row of load_sleep_summary whose log
\* has a stage with no interval in its merged sequence, the deep duration
\* column is 0, also when the log has deep intervals and the missing stage
\* is another one, and the column of a missing light, rem or wake stage is
\* not written; the columns of the other stages present hold their durations.
C22_DeepColumnInconsistency ==
    SummaryReturned =>
        \A i \in 1..Len(result.rows) :
            LET row == result.rows[i]
            IN  MissingStages(row) # {} =>
                  /\ SLEEP_DEEP_DURATION_IN_MS_COL \in DOMAIN row
                  /\ row[SLEEP_DEEP_DURATION_IN_MS_COL] = 0
                  /\ \A st \in MissingStages(row) \ {STAGE_DEEP_VALUE} :
                        stage_value_col_dict[st] \notin DOMAIN row
                  /\ \A st \in Stages \ (MissingStages(row) \cup {STAGE_DEEP_VALUE}) :
                        /\ stage_value_col_dict[st] \in DOMAIN row
                        /\ row[stage_value_col_dict[st]]
                              = 1000 * sleep_stages_duration(MergedOf(row), st)

C22_Witness ==
    /\ SummaryReturned
    /\ Len(result.rows) = 1
    /\ STAGE_DEEP_VALUE \in StagesOf(MergedOf(result.rows[1]))
    /\ STAGE_WAKE_VALUE \in StagesOf(MergedOf(result.rows[1]))
    /\ STAGE_REM_VALUE \in MissingStages(result.rows[1])
    /\ result.rows[1][SLEEP_DEEP_DURATION_IN_MS_COL] = 0
    /\ result.rows[1][SLEEP_AWAKE_DURATION_IN_MS_COL] > 0

(***************************************************************************)
(* Claims about the public operations, checked under Spec.                 *)
(***************************************************************************)
StoredIds == {fitbit_collection[i].id : i \in 1..Len(fitbit_collection)}

\* C10: unknown participant. With a user id that no document of the store
\* carries, load_sleep_stage, load_sleep_summary and load_metric raise
\* ValueError, return no table and issue no aggregate query.
C10_UnknownParticipant ==
    (call.op \in {"load_sleep_stage", "load_sleep_summary", "load_metric"}
        /\ call.user_id \notin StoredIds)
    => /\ result = Raise("ValueError")
       /\ \A k \in 1..Len(queries) : queries[k] # "aggregate"

C10_Witness ==
    /\ call.op = "load_metric"
    /\ call.user_id \notin StoredIds
    /\ call.start_date = None
    /\ call.end_date = None
    /\ \E i \in 1..Len(fitbit_collection) :
          fitbit_collection[i].type = METRIC_DICT[call.metric].metric_key
    /\ result.status = "error"

SleepCall == call.op \in {"load_sleep_stage", "load_sleep_summary"}
KnownSleepCall == SleepCall /\ call.user_id \in StoredIds

\* the bounds of the window of the call, as the loader converts them
CallStart == convert_to_datetime(call.start_date)
CallEnd == convert_to_datetime(call.end_date)

HasSleepLogs(user_id) ==
    \E i \in 1..Len(fitbit_collection) :
        fitbit_collection[i].type = "sleep" /\ fitbit_collection[i].id = user_id

\* C11: invalid range. For a known participant and a window with both bounds
\* given, load_sleep_stage and load_sleep_summary raise ValueError with no
\* aggregate query issued when the end is earlier than the start; when the
\* end equals the start no ValueError is raised and the query is issued.
C11_InvalidRange ==
    (KnownSleepCall /\ CallStart # None /\ CallEnd # None)
    => /\ (CallEnd.t < CallStart.t)
            => (result = Raise("ValueError") /\ queries = <<"distinct">>)
       /\ (CallEnd.t = CallStart.t)
            => (result # Raise("ValueError")
                  /\ queries = <<"distinct", "aggregate">>)

C11_Witness ==
    /\ call.op = "load_sleep_summary"
    /\ HasSleepLogs(call.user_id)
    /\ CallStart # None /\ CallEnd # None
    /\ CallEnd.t < CallStart.t
    /\ result.status = "error"

StageReturned == call.op = "load_sleep_stage" /\ result.status = "ok"

LogIds(rows) == {rows[i].logId : i \in 1..Len(rows)}

\* C12: chronological output. The rows load_sleep_stage returns are in
\* non-decreasing order of unixTimestampInMs, whatever the order of the sleep
\* logs in the collection.
C12_Chronological ==
    StageReturned =>
        \A i \in 1..(Len(result.rows) - 1) :
            result.rows[i][UNIXTIMESTAMP_IN_MS_COL]
                <= result.rows[i + 1][UNIXTIMESTAMP_IN_MS_COL]

C12_Witness ==
    /\ StageReturned
    /\ Len(fitbit_collection) = 2
    /\ fitbit_collection[1].data.startTime > fitbit_collection[2].data.startTime
    /\ LogIds(result.rows) = {1, 2}
    /\ Len(result.rows) >= 4

QueryIssued == \E k \in 1..Len(queries) : queries[k] = "aggregate"

\* the field of a sleep log each operation compares with the window
SleepWindowKey == IF call.op = "load_sleep_stage" THEN "startTime" ELSE "dateOfSleep"

InWindow(t) ==
    /\ CallStart = None \/ t >= CallStart.t
    /\ CallEnd = None \/ t <= CallEnd.t

\* the places in the collection of the sleep logs of the participant of the
\* call that are in its window
LogsInWindow ==
    {i \in 1..Len(fitbit_collection) :
        /\ fitbit_collection[i].type = "sleep"
        /\ fitbit_collection[i].id = call.user_id
        /\ InWindow(fitbit_collection[i].data[SleepWindowKey])}

\* C13: no data is not an error. When load_sleep_summary or load_sleep_stage,
\* called for a known participant, issues its query and no sleep log of the
\* participant is in the window, it returns a table with no row and raises
\* nothing.
C13_NoDataIsNotAnError ==
    (KnownSleepCall /\ QueryIssued /\ LogsInWindow = {})
    => result = ReturnTable(<<>>)

C13_Witness ==
    /\ call.op = "load_sleep_summary"
    /\ HasSleepLogs(call.user_id)
    /\ CallStart # None
    /\ QueryIssued
    /\ LogsInWindow = {}
    /\ result.status = "ok"
    /\ result.rows = <<>>

KnownMetricCall == call.op = "load_metric" /\ call.user_id \in StoredIds

DateTimeColumns == {UNIXTIMESTAMP_IN_MS_COL, TIMEZONEOFFSET_IN_MS_COL, ISODATE_COL}

InvertedWindow == CallStart # None /\ CallEnd # None /\ CallEnd.t < CallStart.t

\* the places in the collection of the documents of the metric and of the
\* participant of the call that are in its window
MetricDocsInWindow ==
    LET keys == METRIC_DICT[call.metric]
        end_key == IF keys.end_date_key = NoKey
                   THEN keys.start_date_key ELSE keys.end_date_key
    IN  {i \in 1..Len(fitbit_collection) :
            /\ fitbit_collection[i].type = keys.metric_key
            /\ fitbit_collection[i].id = call.user_id
            /\ CallStart = None
                  \/ fitbit_collection[i].data[keys.start_date_key] >= CallStart.t
            /\ CallEnd = None
                  \/ fitbit_collection[i].data[end_key] <= CallEnd.t}

\* C14 as stated: for a known participant and every combination of bounds,
\* load_metric returns without error a table that has the columns
\* unixTimestampInMs, timezoneOffsetInMs and isoDate, whatever documents the
\* window selects.
C14_Original ==
    KnownMetricCall =>
        /\ result.status = "ok"
        /\ DateTimeColumns \subseteq result.columns

\* C14 amended: for a known participant and every combination of bounds
\* given as a datetime, a date, a date string or None with the end not
\* earlier than the start, load_metric returns without error one row per
\* document in the window; every row has unixTimestampInMs,
\* timezoneOffsetInMs and isoDate when the window selects at least one
\* document, and the table has no column when it selects none.  With the end
\* earlier than the start the call raises ValueError.
C14_MetricDateTimeColumns ==
    KnownMetricCall =>
        IF InvertedWindow THEN result = Raise("ValueError")
        ELSE /\ result.status = "ok"
             /\ Len(result.rows) = Cardinality(MetricDocsInWindow)
             /\ \A i \in 1..Len(result.rows) :
                   DateTimeColumns \subseteq DOMAIN result.rows[i]
             /\ MetricDocsInWindow # {} => DateTimeColumns \subseteq result.columns
             /\ MetricDocsInWindow = {} => result.columns = {}

C14_Witness ==
    /\ KnownMetricCall
    /\ call.start_date.kind = "datetime"
    /\ call.end_date.kind = "str"
    /\ Cardinality(MetricDocsInWindow) = 2
    /\ result.status = "ok"
    /\ DateTimeColumns \subseteq result.columns

\* the column of the summary that carries field f of the data document
SummaryColumn(f) == IF f = "startTime" THEN ISODATE_COL ELSE f

\* row carries every field of the data document but levels, unchanged
CarriesFields(row, data) ==
    \A f \in DOMAIN data \ {"levels"} :
        /\ SummaryColumn(f) \in DOMAIN row
        /\ row[SummaryColumn(f)] = data[f]

\* C15: whenever load_sleep_summary returns, its table has exactly one row
\* per sleep log of the participant in the window, and the row of a log
\* carries every field of the log's data document other than levels with the
\* value of the document, the start time under isoDate.
C15_OneRowPerLog ==
    SummaryReturned =>
        /\ Len(result.rows) = Cardinality(LogsInWindow)
        /\ \A i \in LogsInWindow :
              \E k \in 1..Len(result.rows) :
                  /\ result.rows[k].logId = fitbit_collection[i].data.logId
                  /\ CarriesFields(result.rows[k], fitbit_collection[i].data)

C15_Witness ==
    /\ SummaryReturned
    /\ CallStart # None
    /\ Len(fitbit_collection) = 2
    /\ Cardinality(LogsInWindow) = 2
    /\ fitbit_collection[1].data.dateOfSleep > fitbit_collection[2].data.dateOfSleep
    /\ fitbit_collection[1].data.startTime # fitbit_collection[1].data.dateOfSleep
    /\ Len(result.rows) = 2

\* a sleep document that has the nested stage-interval array
WellFormed(doc) ==
    "levels" \in DOMAIN doc.data /\ "data" \in DOMAIN doc.data.levels

\* what the call computes from a well-formed log of the window: the merge,
\* or the coarse events when load_sleep_stage leaves shortData out
ProcessesWithoutError(doc) ==
    \/ call.op = "load_sleep_stage" /\ ~call.include_short_data
    \/ _merge_sleep_data_and_sleep_short_data(doc).status = "ok"

\* C16: malformed record isolation. When the window of a call of
\* load_sleep_stage or load_sleep_summary holds a sleep log without the
\* levels.data array next to logs that are processed without error, the call
\* returns a table and every one of those other logs has its rows in it.
C16_MalformedIsolation ==
    (/\ KnownSleepCall
     /\ QueryIssued
     /\ \E i \in LogsInWindow : ~WellFormed(fitbit_collection[i])
     /\ \E i \in LogsInWindow : WellFormed(fitbit_collection[i])
     /\ \A i \in LogsInWindow :
           WellFormed(fitbit_collection[i])
           => ProcessesWithoutError(fitbit_collection[i]))
    => /\ result.status = "ok"
       /\ \A i \in LogsInWindow :
             WellFormed(fitbit_collection[i])
             => fitbit_collection[i].data.logId \in LogIds(result.rows)

\* the orders in which a store can return the documents of the collection
StoreOrders ==
    {[i \in 1..Len(fitbit_collection) |-> fitbit_collection[p[i]]] :
        p \in Permutations(1..Len(fitbit_collection))}

\* the tables load_sleep_stage can return for the call when the store
\* returns the documents in the order coll and every log is processed
StageTablesFor(coll) ==
    LET date_filter == _get_start_and_end_date_time_filter_dict(
                          "startTime", NoKey, CallStart, CallEnd)
        filtered_coll == SelectSeq2(coll, "sleep", call.user_id, date_filter.match)
        rows == Flatten([i \in 1..Len(filtered_coll) |->
                            StageRows(filtered_coll[i], call.include_short_data).rows])
    IN  sort_values([i \in 1..Len(rows) |-> StageDecorate(rows[i])],
                    UNIXTIMESTAMP_IN_MS_COL)

\* C21: order independence. Whenever load_sleep_stage returns, every table
\* it can return for the same call and the same logs in any other order of
\* the store has the same rows in the same order, also when intervals of
\* different logs start at the same timestamp.
C21_OrderIndependence ==
    (StageReturned /\ result.rows # <<>>)
    => \A coll \in StoreOrders : StageTablesFor(coll) = {result.rows}

LogIdsInWindow == {fitbit_collection[i].data.logId : i \in LogsInWindow}

\* C23: window filter. A call that returns has selected exactly the documents
\* of the participant whose key value is >= start and <= end when both are
\* given, >= start when only start is given, <= end when only end is given,
\* and all of them when none is; the end is compared with the end key of
\* the metric or, when it has none, with the start key; the key of
\* load_sleep_stage is the start time of the log.
C23_WindowFilter ==
    /\ (StageReturned \/ SummaryReturned) => LogIds(result.rows) = LogIdsInWindow
    /\ (KnownMetricCall /\ result.status = "ok")
          => /\ Len(result.rows) = Cardinality(MetricDocsInWindow)
             /\ \A i \in MetricDocsInWindow :
                   \E k \in 1..Len(result.rows) :
                       result.rows[k][ISODATE_COL] =
                           fitbit_collection[i].data[
                               METRIC_DICT[call.metric].start_date_key]

C23_Witness ==
    /\ StageReturned
    /\ CallStart # None /\ CallEnd # None
    /\ Len(fitbit_collection) = 2
    /\ \E i \in LogsInWindow :
          /\ fitbit_collection[i].data.startTime = CallStart.t
          /\ fitbit_collection[i].data.startTime = CallEnd.t
          /\ fitbit_collection[i].data.dateOfSleep # CallStart.t
    /\ Cardinality(LogsInWindow) = 1
    /\ Cardinality(LogIds(result.rows)) = 1

\* the intervals of the rows of the table that carry log id id, in the order
\* of the table
RECURSIVE IntervalsTagged(_, _)
IntervalsTagged(rows, id) ==
    IF rows = <<>> THEN <<>>
    ELSE LET rest == IntervalsTagged(Tail(rows), id)
             r == Head(rows)
         IN  IF r.logId = id
             THEN <<Event(r[ISODATE_COL], r.level, r.seconds)>> \o rest
             ELSE rest

\* the intervals the call computes from the events of one log
IntervalsOfLog(doc) ==
    IF call.include_short_data
    THEN _merge_sleep_data_and_sleep_short_data(doc).rows
    ELSE doc.data.levels.data

\* C24: log tagging. In the table load_sleep_stage returns, the rows that
\* carry the id of a log are exactly the intervals computed from that log's
\* events, and every row carries the id of a log of the window, for one log
\* and for several, after the concatenation and the sort.
C24_LogTagging ==
    StageReturned =>
        /\ LogIds(result.rows) \subseteq LogIdsInWindow
        /\ \A i \in LogsInWindow :
              IntervalsTagged(result.rows, fitbit_collection[i].data.logId)
                  = IntervalsOfLog(fitbit_collection[i])

C24_Witness ==
    /\ StageReturned
    /\ call.include_short_data
    /\ Len(fitbit_collection) = 2
    /\ fitbit_collection[1].data.logId = 2
    /\ fitbit_collection[1].data.startTime = fitbit_collection[2].data.startTime
    /\ fitbit_collection[1].data.levels # fitbit_collection[2].data.levels
    /\ "shortData" \in DOMAIN fitbit_collection[1].data.levels
    /\ Cardinality(LogsInWindow) = 2
    /\ Len(result.rows) >= 5

OneSidedWindow == (CallStart = None) # (CallEnd = None)

\* C27: one-sided windows. load_sleep_stage accepts a window of which exactly
\* one bound is given: compare_dates returns True and the call goes on to the
\* aggregate query with the one-sided filter.
C27_OneSidedWindow ==
    (call.op = "load_sleep_stage" /\ call.user_id \in StoredIds /\ OneSidedWindow)
    => /\ result # Raise("TypeError")
       /\ queries = <<"distinct", "aggregate">>
NoShortDataField(doc) == "shortData" \notin DOMAIN doc.data.levels

\* C28: for a sleep log without a shortData field, load_sleep_stage with
\* include_short_data=True returns the log's coarse events unchanged (start,
\* duration, stage and order; not resampled, not coalesced), the rows it
\* returns with include_short_data=False.
C28_NoShortDataField ==
    (StageReturned /\ call.include_short_data)
    => /\ \A i \in LogsInWindow :
             NoShortDataField(fitbit_collection[i])
             => IntervalsTagged(result.rows, fitbit_collection[i].data.logId)
                    = fitbit_collection[i].data.levels.data
       /\ (\A i \in LogsInWindow : NoShortDataField(fitbit_collection[i]))
             => \E o \in SleepStageOutcomes(call.user_id, CallStart, CallEnd, FALSE) :
                    o.result = result

C28_Witness ==
    /\ StageReturned
    /\ call.include_short_data
    /\ \E i \in LogsInWindow :
          LET doc == fitbit_collection[i]
          IN  /\ NoShortDataField(doc)
              /\ Len(doc.data.levels.data) = 2
              /\ doc.data.levels.data[1].level = doc.data.levels.data[2].level
              /\ doc.data.levels.data[1].seconds = 45
              /\ Len(IntervalsTagged(result.rows, doc.data.logId)) = 2
\* the tables load_sleep_stage returns for the participant and the window of
\* the call
StageTablesOfCall ==
    {o.result.rows :
        o \in {x \in UNION {SleepStageOutcomes(call.user_id, CallStart, CallEnd, inc) :
                                inc \in BOOLEAN} : x.result.status = "ok"}}

\* C29: for the same participant and the same window, the log ids with a row
\* in the table of load_sleep_summary are the log ids of the rows of
\* load_sleep_stage, whatever the store holds, every log having at least one
\* coarse event.  Read on the calls of the two operations that return.
C29_SameLogIds ==
    SummaryReturned =>
        \A rows \in StageTablesOfCall : LogIds(rows) = LogIds(result.rows)
(***************************************************************************)
(* Claims about load_steps, checked under SpecSteps.                       *)
(***************************************************************************)
StepsReturned == call.op = "load_steps" /\ result.status = "ok"

RECURSIVE RunningTotal(_, _, _)
RunningTotal(rows, i, k) ==
    IF k = 0 THEN 0
    ELSE (IF rows[k][ISODATE_COL] \div DaySeconds = rows[i][ISODATE_COL] \div DaySeconds
          THEN rows[k][STEPS_COL] ELSE 0)
         + RunningTotal(rows, i, k - 1)

\* the step counts of the documents of the window in the order of
\* load_metric, as pairs of time and count
StoredSteps ==
    {[i \in 1..Len(o.result.rows) |->
         <<o.result.rows[i][ISODATE_COL], astype_int64[o.result.rows[i].value]>>] :
        o \in MetricOutcomes(METRIC_STEPS, call.user_id, CallStart, CallEnd)}

====
